------------------------------ MODULE Spec2Model ------------------------------
(***************************************************************************)
(* Model of django_param_validator/validator.py: _validate_part and        *)
(* value_of_param.  Both are pure functions of a parameter definition and  *)
(* the request data, so the state machine draws a definition and an input  *)
(* in Init and applies the function in one step.                           *)
(*                                                                         *)
(* Python strings are sequences of one-character strings.  Python values   *)
(* are records with the same fields for every type, so that any two of     *)
(* them can be compared.  A function call's outcome is a record holding    *)
(* the exception class raised ("" when the call returns) and the value     *)
(* returned.                                                               *)
(***************************************************************************)
EXTENDS Integers, Sequences, FiniteSets, TLC

VARIABLES param, value, request, pc, result

vars == <<param, value, request, pc, result>>

-----------------------------------------------------------------------------
(* Bounds of the input sets.                                               *)

\* Longest raw string drawn exhaustively over Alphabet.
MaxLen == 3

\* Longest list of strings drawn exhaustively over ListPieces.
MaxListLen == 2

-----------------------------------------------------------------------------
(* Python values.                                                          *)

\* kind: "none" "str" "int" "float" "bool" "list" "datetime"
\* i:     the number of an int, 1 or 0 of a bool
\* s:     the characters of a str
\* n:     <<numerator, denominator>> of a float,
\*        <<year, month, day, hour, minute, second>> of a datetime
\* items: the elements of a list
NoneV == [kind |-> "none", i |-> 0, s |-> <<>>, n |-> <<>>, items |-> <<>>]

StrV(chars) == [kind |-> "str", i |-> 0, s |-> chars, n |-> <<>>, items |-> <<>>]

IntV(k) == [kind |-> "int", i |-> k, s |-> <<>>, n |-> <<>>, items |-> <<>>]

BoolV(b) == [kind |-> "bool", i |-> IF b THEN 1 ELSE 0, s |-> <<>>, n |-> <<>>, items |-> <<>>]

FloatV(num, den) == [kind |-> "float", i |-> 0, s |-> <<>>, n |-> <<num, den>>, items |-> <<>>]

ListV(elems) == [kind |-> "list", i |-> 0, s |-> <<>>, n |-> <<>>, items |-> elems]

DateTimeV(fields) == [kind |-> "datetime", i |-> 0, s |-> <<>>, n |-> fields, items |-> <<>>]

IsNumber(v) == v.kind \in {"int", "float", "bool"}

Numer(v) == IF v.kind = "float" THEN v.n[1] ELSE v.i

Denom(v) == IF v.kind = "float" THEN v.n[2] ELSE 1

\* Python's ==, as `in` applies it: numbers (bool included) compare by value
\* across their types, other values only within their own type.
PyEq(a, b) ==
    IF IsNumber(a) /\ IsNumber(b)
    THEN Numer(a) * Denom(b) = Numer(b) * Denom(a)
    ELSE a = b

\* `v in lst` for a list of values.
PyIn(v, lst) == \E k \in 1..Len(lst) : PyEq(v, lst[k])

-----------------------------------------------------------------------------
(* Python strings.                                                         *)

Digits == {"0", "1", "2", "3", "4", "5", "6", "7", "8", "9"}

DigitVal(c) == CASE c = "0" -> 0 [] c = "1" -> 1 [] c = "2" -> 2 [] c = "3" -> 3
                 [] c = "4" -> 4 [] c = "5" -> 5 [] c = "6" -> 6 [] c = "7" -> 7
                 [] c = "8" -> 8 [] c = "9" -> 9

Whitespace == {" ", "\t"}

\* str.strip(): the string without its leading and trailing whitespace.
RECURSIVE Strip(_)
Strip(s) ==
    IF s = <<>> THEN s
    ELSE IF Head(s) \in Whitespace THEN Strip(Tail(s))
    ELSE IF s[Len(s)] \in Whitespace THEN Strip(SubSeq(s, 1, Len(s) - 1))
    ELSE s

\* str.split(sep) for a one-character separator: the pieces between the
\* separators, in order, empty pieces kept; the empty string gives [''].
RECURSIVE SplitFrom(_, _, _, _)
SplitFrom(s, sep, k, piece) ==
    IF k > Len(s) THEN <<piece>>
    ELSE IF s[k] = sep THEN <<piece>> \o SplitFrom(s, sep, k + 1, <<>>)
    ELSE SplitFrom(s, sep, k + 1, Append(piece, s[k]))

Split(s, sep) == SplitFrom(s, sep, 1, <<>>)

\* A digit group of a numeric literal: digits, single underscores allowed
\* between two digits.
IsDigitGroup(s) ==
    /\ s # <<>>
    /\ s[1] \in Digits
    /\ s[Len(s)] \in Digits
    /\ \A k \in 1..Len(s) : s[k] \in Digits \cup {"_"}
    /\ \A k \in 1..(Len(s) - 1) : ~(s[k] = "_" /\ s[k + 1] = "_")

OnlyDigits(s) == SelectSeq(s, LAMBDA c : c \in Digits)

RECURSIVE DigitsVal(_)
DigitsVal(s) ==
    IF s = <<>> THEN 0
    ELSE 10 * DigitsVal(SubSeq(s, 1, Len(s) - 1)) + DigitVal(s[Len(s)])

HasSign(s) == s # <<>> /\ s[1] \in {"+", "-"}

Unsigned(s) == IF HasSign(s) THEN Tail(s) ELSE s

SignOf(s) == IF s # <<>> /\ s[1] = "-" THEN -1 ELSE 1

\* int(s) accepts s: optional whitespace around an optionally signed digit group.
IntParses(s) == IsDigitGroup(Unsigned(Strip(s)))

\* IntOf without the sign of the numeral.
IntOf_Unsigned(s) == DigitsVal(OnlyDigits(Unsigned(Strip(s))))

\* int(s), base 10, for a string int() accepts.
IntOf(s) == SignOf(Strip(s)) * DigitsVal(OnlyDigits(Unsigned(Strip(s))))

RECURSIVE Pow10(_)
Pow10(k) == IF k = 0 THEN 1 ELSE 10 * Pow10(k - 1)

\* float(s) accepts s: optional whitespace around an optionally signed decimal
\* literal, digits on at least one side of at most one point.  (Exponents and
\* inf/nan are outside the inputs drawn here.)
FloatParses(s) ==
    LET parts == Split(Unsigned(Strip(s)), ".")
    IN  \/ Len(parts) = 1 /\ IsDigitGroup(parts[1])
        \/ /\ Len(parts) = 2
           /\ parts[1] = <<>> \/ IsDigitGroup(parts[1])
           /\ parts[2] = <<>> \/ IsDigitGroup(parts[2])
           /\ ~(parts[1] = <<>> /\ parts[2] = <<>>)

\* A decimal fraction num/den with den the least power of ten.
RECURSIVE Reduce10(_, _)
Reduce10(num, den) ==
    IF den > 1 /\ num % 10 = 0 THEN Reduce10(num \div 10, den \div 10)
    ELSE <<num, den>>

\* float(s) for a string float() accepts, as <<numerator, denominator>>.
FloatOf(s) ==
    LET parts == Split(Unsigned(Strip(s)), ".")
        whole == OnlyDigits(parts[1])
        frac  == IF Len(parts) = 2 THEN OnlyDigits(parts[2]) ELSE <<>>
        r     == Reduce10(DigitsVal(whole \o frac), Pow10(Len(frac)))
    IN  <<SignOf(Strip(s)) * r[1], r[2]>>

\* The regular expressions drawn here are sequences of literal characters and
\* ".", which matches any one character.
\* re.match(pattern, s): the pattern matches at the start of s.
ReMatch(pattern, s) ==
    /\ Len(pattern) <= Len(s)
    /\ \A k \in 1..Len(pattern) : pattern[k] = "." \/ pattern[k] = s[k]

\* re.fullmatch(pattern, s): the pattern matches all of s.
ReFullMatch(pattern, s) == ReMatch(pattern, s) /\ Len(pattern) = Len(s)

-----------------------------------------------------------------------------
(* django.utils.dateparse and django.utils.timezone.                       *)

\* The outcome of a library call: exc is the exception class raised, "" when
\* the call returns; fields are the date and time fields returned, <<>> for None.
Parsed(exc, fields) == [exc |-> exc, fields |-> fields]

IsNum(s, lo, hi) ==
    /\ Len(s) >= lo
    /\ Len(s) <= hi
    /\ \A k \in 1..Len(s) : s[k] \in Digits

IsLeap(y) == (y % 4 = 0 /\ y % 100 # 0) \/ y % 400 = 0

DaysIn(y, m) ==
    IF m = 2 THEN (IF IsLeap(y) THEN 29 ELSE 28)
    ELSE IF m \in {4, 6, 9, 11} THEN 30 ELSE 31

\* parse_date(s): None unless s is YYYY-M[M]-D[D]; ValueError when it is and
\* names no day of the calendar; else <<year, month, day>>.
parse_date(s) ==
    LET p == Split(s, "-")
    IN  IF ~(Len(p) = 3 /\ IsNum(p[1], 4, 4) /\ IsNum(p[2], 1, 2) /\ IsNum(p[3], 1, 2))
        THEN Parsed("", <<>>)
        ELSE LET y == DigitsVal(p[1])
                 m == DigitsVal(p[2])
                 d == DigitsVal(p[3])
             IN  IF y >= 1 /\ m \in 1..12 /\ d >= 1 /\ d <= DaysIn(y, m)
                 THEN Parsed("", <<y, m, d>>)
                 ELSE Parsed("ValueError", <<>>)

\* The index of the first "T" or " " of s, 0 when there is none.
RECURSIVE DateTimeSep(_, _)
DateTimeSep(s, k) ==
    IF k > Len(s) THEN 0
    ELSE IF s[k] \in {"T", " "} THEN k
    ELSE DateTimeSep(s, k + 1)

\* parse_datetime(s): None unless s is a date, "T" or " ", H[H]:M[M] with
\* optional :S[S] and an optional final "Z"; ValueError when a field is out of
\* range; else the seven fields, the last 1 when the "Z" makes it aware.
\* (Fractions of a second and numeric offsets are outside the inputs drawn here.)
parse_datetime(s) ==
    LET k     == DateTimeSep(s, 1)
        aware == s # <<>> /\ s[Len(s)] = "Z"
        body  == IF aware THEN SubSeq(s, 1, Len(s) - 1) ELSE s
        date  == IF k = 0 THEN Parsed("", <<>>) ELSE parse_date(SubSeq(body, 1, k - 1))
        t     == IF k = 0 THEN <<>> ELSE Split(SubSeq(body, k + 1, Len(body)), ":")
        shape == /\ k # 0
                 /\ Len(t) \in {2, 3}
                 /\ \A j \in 1..Len(t) : IsNum(t[j], 1, 2)
                 /\ (date.exc # "" \/ date.fields # <<>>)
    IN  IF ~shape THEN Parsed("", <<>>)
        ELSE LET h  == DigitsVal(t[1])
                 mi == DigitsVal(t[2])
                 sec == IF Len(t) = 3 THEN DigitsVal(t[3]) ELSE 0
             IN  IF date.exc = "" /\ h < 24 /\ mi < 60 /\ sec < 60
                 THEN Parsed("", date.fields \o <<h, mi, sec, IF aware THEN 1 ELSE 0>>)
                 ELSE Parsed("ValueError", <<>>)

\* make_aware(datetime): AttributeError for None, ValueError for a datetime
\* that is aware already, else the same fields in the current time zone.
make_aware(p) ==
    IF p.exc # "" THEN p
    ELSE IF p.fields = <<>> THEN Parsed("AttributeError", <<>>)
    ELSE IF p.fields[7] = 1 THEN Parsed("ValueError", <<>>)
    ELSE Parsed("", SubSeq(p.fields, 1, 6))

\* datetime.fromordinal(parse_date(value).toordinal()): midnight of the day;
\* AttributeError when parse_date returned None.
DateAtMidnight(p) ==
    IF p.exc # "" THEN p
    ELSE IF p.fields = <<>> THEN Parsed("AttributeError", <<>>)
    ELSE Parsed("", p.fields \o <<0, 0, 0, 0>>)

-----------------------------------------------------------------------------
(* Parameter definitions (drf_yasg openapi.Parameter and openapi.Items).   *)

\* An attribute the object may lack is <<>> when the object has no such
\* attribute and <<x>> when it is set to x; getattr(param, a, None) and
\* hasattr(param, a) read it.  items_ is read as param.items_, without getattr:
\* there <<>> is the value None, and lacks_items_ tells the object that has no
\* items_ attribute at all.
Has(attr) == Len(attr) > 0

Schema(type, enum, pattern, format, collectionFormat, items) ==
    [name |-> "p", in_ |-> "query", type |-> type, required |-> FALSE,
     default |-> <<>>, enum |-> enum, pattern |-> pattern, format |-> format,
     collectionFormat |-> collectionFormat, items_ |-> items,
     lacks_items_ |-> FALSE]

-----------------------------------------------------------------------------
(* Outcomes of a call.                                                     *)

NoMsg == [text |-> "", field |-> "", listed |-> <<>>]

\* The call returns val.
Return(val) == [exc |-> "", val |-> val, msg |-> NoMsg, at |-> NoneV]

\* The call raises exc with a message built from text, the field's name and
\* the values listed; at is the value argument of the call that raised.
Raise(exc, text, field, listed, at) ==
    [exc |-> exc, val |-> NoneV,
     msg |-> [text |-> text, field |-> field, listed |-> listed],
     at |-> at]

Raised(r) == r.exc # ""

-----------------------------------------------------------------------------
(* _validate_part                                                          *)

splitter_for == [csv |-> <<",">>, ssv |-> <<" ">>, tsv |-> <<"\t">>, pipes |-> <<"|">>]

\* TrueLiterals without regard to case.
TrueLiterals_AnyCase ==
    {<<"t", "r", "u", "e">>, <<"1">>, <<"y", "e", "s">>, <<"T", "r", "u", "e">>,
     <<"T", "R", "U", "E">>}

\* Line 57: the strings a boolean is True for.
TrueLiterals == {<<"t", "r", "u", "e">>, <<"1">>, <<"y", "e", "s">>}

\* What `for v in values` yields: the elements of a list, the characters of a str.
Iterate(v) ==
    IF v.kind = "str" THEN [k \in 1..Len(v.s) |-> StrV(<<v.s[k]>>)]
    ELSE v.items

\* Lines 59-65: int(value), ValueError re-raised with the field's message.
\* int() of a list raises TypeError, which the except clause lets through.
ConvertInteger(name, v) ==
    IF v.kind # "str" THEN Raise("TypeError", "", name, <<>>, v)
    ELSE IF IntParses(v.s) THEN Return(IntV(IntOf(v.s)))
    ELSE Raise("ValueError", "must be an integer", name, <<>>, v)

\* Lines 66-72: float(value).
ConvertNumber(name, v) ==
    IF v.kind # "str" THEN Raise("TypeError", "", name, <<>>, v)
    ELSE IF FloatParses(v.s) THEN Return(FloatV(FloatOf(v.s)[1], FloatOf(v.s)[2]))
    ELSE Raise("ValueError", "must be a floating point number", name, <<>>, v)

\* Lines 82-99: the date and date-time formats of a string; any other format
\* leaves the value as it is.  The handlers of ValueError raise BadRequest, a
\* name the module neither defines nor imports: what is raised is NameError.
ConvertFormat(name, p, v) ==
    LET param_format == IF Has(p.format) THEN p.format[1] ELSE "NONE"
    IN  IF param_format \notin {"date", "date-time"} THEN Return(v)
        ELSE IF v.kind # "str" THEN Raise("TypeError", "", name, <<>>, v)
        ELSE LET parsed == IF param_format = "date"
                           THEN make_aware(DateAtMidnight(parse_date(v.s)))
                           ELSE make_aware(parse_datetime(v.s))
             IN  IF parsed.exc = "" THEN Return(DateTimeV(parsed.fields))
                 ELSE IF parsed.exc = "ValueError"
                 THEN Raise("NameError", "name 'BadRequest' is not defined", name, <<>>, v)
                 ELSE Raise(parsed.exc, "", name, <<>>, v)

\* Lines 73-100: a string's pattern, matched from the start of the value, then
\* its format.  A value the pattern does not match reaches `raise BadRequest`
\* at line 78, which raises NameError: BadRequest is not defined.
ConvertString(name, p, v) ==
    IF Has(p.pattern) /\ p.pattern[1] # <<>> /\ v.kind # "str"
    THEN Raise("TypeError", "", name, <<>>, v)
    ELSE IF Has(p.pattern) /\ p.pattern[1] # <<>> /\ ~ReMatch(p.pattern[1], v.s)
    THEN Raise("NameError", "name 'BadRequest' is not defined", name, <<>>, v)
    ELSE ConvertFormat(name, p, v)

\* Lines 59-100: the conversion of the value by the declared type.  A type that
\* is none of integer, number and string takes no branch and keeps the value.
Convert(name, p, v) ==
    IF p.type = "integer" THEN ConvertInteger(name, v)
    ELSE IF p.type = "number" THEN ConvertNumber(name, v)
    ELSE IF p.type = "string" THEN ConvertString(name, p, v)
    ELSE Return(v)

\* CheckEnum looking for the raw value in the enum, not for the converted one.
CheckEnum_RawValue(name, p, v, val) ==
    IF Has(p.enum) /\ ~PyIn(v, p.enum[1])
    THEN Raise("ValueError", "is required to be one of the following values:",
               name, p.enum[1], v)
    ELSE Return(val)

\* Lines 102-108: the converted value must be in the enum, when there is one.
CheckEnum(name, p, v, val) ==
    IF Has(p.enum) /\ ~PyIn(val, p.enum[1])
    THEN Raise("ValueError", "is required to be one of the following values:",
               name, p.enum[1], v)
    ELSE Return(val)

\* Lines 110-117: re.fullmatch is called with the value alone, without the
\* pattern, so the call raises TypeError whenever the definition has a pattern.
CheckPattern(name, p, v, val) ==
    IF Has(p.pattern) THEN Raise("TypeError", "", name, <<>>, v)
    ELSE Return(val)

\* Line 52: the list comprehension.  Its element expression calls
\* validate_param_part, a name the module does not define: the first value
\* raises NameError, and only an empty sequence of values gives a list, [].
ValidateEach(name, items, values, v) ==
    IF Len(values) = 0 THEN Return(ListV(<<>>))
    ELSE Raise("NameError", "name 'validate_param_part' is not defined", name, <<>>, v)

\* ValidateArray reading a missing collection format as csv.
ValidateArray_DefaultCsv(name, p, v) ==
    LET collection_format == IF Has(p.collectionFormat) THEN p.collectionFormat[1] ELSE "csv"
    IN  IF collection_format = ""
        THEN Raise("InvalidParameterDefinition", "collection format not defined",
                   name, <<>>, v)
        ELSE IF collection_format \in DOMAIN splitter_for /\ v.kind # "str"
        THEN Raise("AttributeError", "", name, <<>>, v)
        ELSE IF collection_format \notin (DOMAIN splitter_for) \cup {"multi"}
        THEN Raise("InvalidParameterDefinition", "collection format not recognised",
                   name, <<>>, v)
        ELSE IF p.lacks_items_
        THEN Raise("AttributeError", "", name, <<>>, v)
        ELSE IF ~Has(p.items_)
        THEN Raise("InvalidParameterDefinition", "type of items not defined",
                   name, <<>>, v)
        ELSE LET values == IF collection_format = "multi" THEN Iterate(v)
                           ELSE LET pieces == Split(v.s, splitter_for[collection_format][1])
                                IN  [k \in 1..Len(pieces) |-> StrV(pieces[k])]
             IN  ValidateEach(name, p.items_[1], values, v)

\* Lines 29-52: an array is split by its collection format and each piece is
\* validated against the definition of the items.
ValidateArray(name, p, v) ==
    LET collection_format == IF Has(p.collectionFormat) THEN p.collectionFormat[1] ELSE ""
    IN  IF collection_format = ""
        THEN Raise("InvalidParameterDefinition", "collection format not defined",
                   name, <<>>, v)
        ELSE IF collection_format \in DOMAIN splitter_for /\ v.kind # "str"
        THEN Raise("AttributeError", "", name, <<>>, v)
        ELSE IF collection_format \notin (DOMAIN splitter_for) \cup {"multi"}
        THEN Raise("InvalidParameterDefinition", "collection format not recognised",
                   name, <<>>, v)
        ELSE IF p.lacks_items_
        THEN Raise("AttributeError", "", name, <<>>, v)
        ELSE IF ~Has(p.items_)
        THEN Raise("InvalidParameterDefinition", "type of items not defined",
                   name, <<>>, v)
        ELSE LET values == IF collection_format = "multi" THEN Iterate(v)
                           ELSE LET pieces == Split(v.s, splitter_for[collection_format][1])
                                IN  [k \in 1..Len(pieces) |-> StrV(pieces[k])]
             IN  ValidateEach(name, p.items_[1], values, v)

\* Lines 17-120.
_validate_part(name, p, v) ==
    IF p.type = "array" THEN ValidateArray(name, p, v)
    ELSE IF p.type = "boolean" THEN Return(BoolV(v.kind = "str" /\ v.s \in TrueLiterals))
    ELSE LET converted == Convert(name, p, v)
         IN  IF Raised(converted) THEN converted
             ELSE LET checked == CheckEnum(name, p, v, converted.val)
                  IN  IF Raised(checked) THEN checked
                      ELSE CheckPattern(name, p, v, converted.val)

-----------------------------------------------------------------------------
(* value_of_param                                                          *)

\* Lines 123-144.  The `if` statements of lines 132, 133 and 138 have no body,
\* so the function does not compile (IndentationError, a SyntaxError, reported
\* when the module is loaded): no request is looked up, no default is read and
\* no value is validated, whatever the definition and the request are.
value_of_param(p, req) ==
    Raise("IndentationError", "expected an indented block", p.name, <<>>, NoneV)

-----------------------------------------------------------------------------
(* The inputs.                                                             *)

SeqsUpTo(S, n) == UNION {[1..k -> S] : k \in 0..n}

Alphabet == {"1", "2", "x", ","}

Words ==
    { <<"t", "r", "u", "e">>, <<"y", "e", "s">>, <<"T", "r", "u", "e">>,
      <<"T", "R", "U", "E">>, <<"f", "a", "l", "s", "e">>, <<"0">>,
      <<"a", ",", "b", ",", "c">>, <<"1", ",", "2", ",", "3">>,
      <<"1", ",", "x", ",", "3">>, <<"x", ",", "1", ",", "y">>,
      <<"1", " ", "2">>, <<"1", "\t", "x">>, <<"1", "|", "2">>,
      <<"1", "|", "2", ",", "3", "|", "x">>,
      <<"-", "1">>, <<"+", "2">>, <<" ", "3", " ">>, <<"1", "_", "2">>, <<"-">>,
      <<"5">>, <<"1", ".", "5">>, <<"2", ".", "0">>, <<".">>,
      <<"2", "0", "2", "0", "-", "0", "2", "-", "2", "9">>,
      <<"2", "0", "2", "1", "-", "0", "2", "-", "2", "9">>,
      <<"2", "0", "2", "0", "-", "0", "2", "-", "2", "9", "T", "1", "0", ":", "3", "0">>,
      <<"2", "0", "2", "0", "-", "0", "2", "-", "2", "9", "T", "1", "0", ":", "3", "0", "Z">> }

RawStrings == {StrV(s) : s \in SeqsUpTo(Alphabet, MaxLen) \cup Words}

ListPieces == {StrV(<<"1">>), StrV(<<"x">>), StrV(<<"2", ",", "1">>)}

RawLists == {ListV(l) : l \in SeqsUpTo(ListPieces, MaxListLen)}

RawValues == RawStrings \cup RawLists

Opt(S) == {<<>>} \cup {<<x>> : x \in S}

Enums == { <<IntV(1), IntV(2), IntV(3)>>,
           <<StrV(<<"x">>), StrV(<<"1", "2">>)>>,
           <<BoolV(TRUE)>> }

Patterns == {<<"1">>, <<"x", ".">>, <<>>}

Formats == {"date", "date-time", "email"}

ScalarTypes == {"string", "integer", "number", "boolean", "object"}

ScalarSchemas ==
    {Schema(ty, e, pa, f, <<>>, <<>>) :
        ty \in ScalarTypes, e \in Opt(Enums), pa \in Opt(Patterns), f \in {<<>>}}
    \cup {Schema("string", e, pa, f, <<>>, <<>>) :
        e \in Opt(Enums), pa \in Opt(Patterns), f \in Opt(Formats)}

CollectionFormats == {"", "csv", "ssv", "tsv", "pipes", "multi", "bogus"}

InnerArrays ==
    {Schema("array", <<>>, <<>>, <<>>, cf, <<Schema("integer", <<>>, <<>>, <<>>, <<>>, <<>>)>>) :
        cf \in {<<>>, <<"pipes">>, <<"multi">>}}

ItemSchemas ==
    {Schema(ty, e, pa, <<>>, <<>>, <<>>) :
        ty \in {"string", "integer", "boolean"},
        e \in {<<>>, <<(<<IntV(1), IntV(2), IntV(3)>>)>>},
        pa \in {<<>>, <<(<<"1">>)>>}}
    \cup InnerArrays

ArraySchemas ==
    {Schema("array", <<>>, <<>>, <<>>, cf, it) :
        cf \in Opt(CollectionFormats), it \in Opt(ItemSchemas)}
    \cup {[Schema("array", <<>>, <<>>, <<>>, cf, <<>>) EXCEPT !.lacks_items_ = TRUE] :
        cf \in Opt(CollectionFormats)}

Schemas == ScalarSchemas \cup ArraySchemas

\* The definitions and requests value_of_param is called with.
Locations == {"query", "header", "path", "body", "form"}

Defaults == {IntV(7), StrV(<<"x">>)}

LookupSchemas ==
    {[s EXCEPT !.in_ = loc, !.required = req, !.default = d] :
        s \in { Schema("integer", <<(<<IntV(1), IntV(2), IntV(3)>>)>>, <<>>, <<>>, <<>>, <<>>),
                Schema("string", <<>>, <<>>, <<>>, <<>>, <<>>),
                Schema("boolean", <<>>, <<>>, <<>>, <<>>, <<>>),
                Schema("array", <<>>, <<>>, <<>>, <<"csv">>,
                       <<Schema("integer", <<>>, <<>>, <<>>, <<>>, <<>>)>>) },
        loc \in Locations, req \in BOOLEAN, d \in Opt(Defaults)}

LookupValues == {StrV(<<"2">>), StrV(<<"x">>), StrV(<<"1", ",", "2">>)}

Mappings == UNION {[names -> LookupValues] : names \in SUBSET {"p", "q"}}

Requests == [query_params : Mappings, META : Mappings]

NoRequest == [query_params |-> <<>>, META |-> <<>>]

NoResult == Return(NoneV)

-----------------------------------------------------------------------------
(* The state machine: one call of _validate_part or of value_of_param.     *)

InitValidate ==
    /\ pc = "validate"
    /\ param \in Schemas
    /\ value \in RawValues
    /\ request = NoRequest
    /\ result = NoResult

InitLookup ==
    /\ pc = "lookup"
    /\ param \in LookupSchemas
    /\ value = NoneV
    /\ request \in Requests
    /\ result = NoResult

Init == InitValidate \/ InitLookup

ValidatePart ==
    /\ pc = "validate"
    /\ result' = _validate_part(param.name, param, value)
    /\ pc' = "validated"
    /\ UNCHANGED <<param, value, request>>

ValueOfParam ==
    /\ pc = "lookup"
    /\ result' = value_of_param(param, request)
    /\ pc' = "looked up"
    /\ UNCHANGED <<param, value, request>>

Next == ValidatePart \/ ValueOfParam

Spec == Init /\ [][Next]_vars

-----------------------------------------------------------------------------
(* Vocabulary of the properties.                                           *)

\* The exception that reports a bad value (BadRequest, which the module also
\* names, is not defined and is never raised), and the one that reports a bad
\* parameter definition.
ValidationErrors == {"ValueError"}

SchemaErrors == {"InvalidParameterDefinition"}

Validated == pc = "validated"

LookedUp == pc = "looked up"

IntegerSchema == Schema("integer", <<>>, <<>>, <<>>, <<>>, <<>>)

StringSchema == Schema("string", <<>>, <<>>, <<>>, <<>>, <<>>)

OneTwoThree == <<IntV(1), IntV(2), IntV(3)>>

\* The decimal numeral of an integer: a "-" for a negative one, then its
\* digits without leading zeros.
DigitChar(d) == CASE d = 0 -> "0" [] d = 1 -> "1" [] d = 2 -> "2" [] d = 3 -> "3"
                  [] d = 4 -> "4" [] d = 5 -> "5" [] d = 6 -> "6" [] d = 7 -> "7"
                  [] d = 8 -> "8" [] d = 9 -> "9"

RECURSIVE NumeralOf(_)
NumeralOf(k) ==
    IF k < 10 THEN <<DigitChar(k)>>
    ELSE Append(NumeralOf(k \div 10), DigitChar(k % 10))

DecimalOf(k) == IF k < 0 THEN <<"-">> \o NumeralOf(0 - k) ELSE NumeralOf(k)

\* s is the decimal numeral of some integer.
IsDecimal(s) ==
    LET d == IF s # <<>> /\ s[1] = "-" THEN Tail(s) ELSE s
    IN  /\ d # <<>>
        /\ \A k \in 1..Len(d) : d[k] \in Digits
        /\ Len(d) > 1 => d[1] # "0"
        /\ s[1] = "-" => d # <<"0">>

-----------------------------------------------------------------------------
(* C1 *)

\* C1: for a definition of type integer, a raw string that is the decimal
\* numeral of an integer n is converted to exactly n (whatever is returned is
\* the int whose numeral is the raw string, and it is returned when no enum and
\* no pattern stand in the way, and with the enum [1, 2, 3] exactly when n is
\* 1, 2 or 3); a raw string int() does not accept fails with
\* the ValueError "must be an integer", also when the definition has an enum
\* the string is not in: the parse failure is reported before the enum check.
C1_IntegerRoundTrip ==
    (Validated /\ param.type = "integer" /\ value.kind = "str") =>
        /\ IsDecimal(value.s) =>
              /\ ~Raised(result) =>
                    result.val.kind = "int" /\ DecimalOf(result.val.i) = value.s
              /\ (~Has(param.enum) /\ ~Has(param.pattern)) => ~Raised(result)
              /\ (~Has(param.pattern) /\ param.enum = <<OneTwoThree>>) =>
                    (~Raised(result) <=>
                        \E k \in 1..Len(param.enum[1]) :
                            /\ param.enum[1][k].kind = "int"
                            /\ DecimalOf(param.enum[1][k].i) = value.s)
        /\ ~IntParses(value.s) =>
              /\ result.exc = "ValueError"
              /\ result.msg.text = "must be an integer"
              /\ result.msg.field = param.name

\* {type: integer, enum: [1, 2, 3]} with raw "x" fails with "must be an integer".
C1_Witness ==
    /\ Validated
    /\ param.type = "integer"
    /\ param.enum = <<OneTwoThree>>
    /\ value = StrV(<<"x">>)
    /\ result.exc = "ValueError"
    /\ result.msg.text = "must be an integer"

-----------------------------------------------------------------------------
(* C2 *)

\* C2 as stated: for every type string, integer, number and boolean, a
\* definition with an enum returns a value only if the value is in the enum.
C2_EnumEveryType ==
    (Validated /\ param.type \in {"string", "integer", "number", "boolean"}
               /\ Has(param.enum) /\ value.kind = "str") =>
        (~Raised(result) => PyIn(result.val, param.enum[1]))

\* C2, amended: for the types string, integer and number, a definition with an
\* enum returns a value only if the converted value is in the enum, and every
\* converted value that is not in it fails with the ValueError whose message
\* lists all the values of the enum, in the enum's order.  (A boolean is
\* returned before the enum is looked at.)
C2_EnumNonBoolean ==
    (Validated /\ param.type \in {"string", "integer", "number"}
               /\ Has(param.enum) /\ value.kind = "str") =>
        LET converted == Convert(param.name, param, value)
        IN  /\ ~Raised(result) => PyIn(result.val, param.enum[1])
            /\ (~Raised(converted) /\ ~PyIn(converted.val, param.enum[1])) =>
                  /\ result.exc = "ValueError"
                  /\ result.exc \in ValidationErrors
                  /\ result.msg.text = "is required to be one of the following values:"
                  /\ result.msg.listed = param.enum[1]

\* {type: integer, enum: [1, 2, 3]} with raw "5" fails listing 1, 2, 3.
C2_Witness ==
    /\ Validated
    /\ param.type = "integer"
    /\ param.enum = <<OneTwoThree>>
    /\ value = StrV(<<"5">>)
    /\ result.exc = "ValueError"
    /\ result.msg.listed = OneTwoThree

-----------------------------------------------------------------------------
(* C3 *)

\* C3: for a definition of type boolean no raw string fails; the result is
\* True for exactly the strings "true", "1" and "yes" and False for every
\* other string, whatever else the definition declares.
C3_Boolean ==
    (Validated /\ param.type = "boolean" /\ value.kind = "str") =>
        /\ ~Raised(result)
        /\ result.val.kind = "bool"
        /\ result.val.i = 1 <=>
              value.s \in {<<"t", "r", "u", "e">>, <<"1">>, <<"y", "e", "s">>}
        /\ result.val.i \in {0, 1}

\* "True" is False, also under an enum that holds only True.
C3_Witness ==
    /\ Validated
    /\ param.type = "boolean"
    /\ param.enum = <<(<<BoolV(TRUE)>>)>>
    /\ value = StrV(<<"T", "r", "u", "e">>)
    /\ result = Return(BoolV(FALSE))

-----------------------------------------------------------------------------
(* Vocabulary of the array properties.                                     *)

Delimiter(format) == CASE format = "csv" -> "," [] format = "ssv" -> " "
                       [] format = "tsv" -> "\t" [] format = "pipes" -> "|"

DelimiterFormats == {"csv", "ssv", "tsv", "pipes"}

RECURSIVE Join(_, _)
Join(pieces, sep) ==
    IF Len(pieces) = 1 THEN pieces[1]
    ELSE pieces[1] \o <<sep>> \o Join(Tail(pieces), sep)

\* pieces are the pieces of s between the separators.
ArePieces(pieces, s, sep) ==
    /\ Len(pieces) >= 1
    /\ \A k \in 1..Len(pieces) : \A j \in 1..Len(pieces[k]) : pieces[k][j] # sep
    /\ Join(pieces, sep) = s

\* An array definition with a known collection format and a definition of its
\* items, called with the kind of raw value the format takes: a string for a
\* delimiter format; for multi the sequence of strings the caller supplies.
ArrayCase ==
    /\ Validated
    /\ param.type = "array"
    /\ Has(param.collectionFormat)
    /\ Has(param.items_)
    /\ \/ param.collectionFormat[1] \in DelimiterFormats /\ value.kind = "str"
       \/ param.collectionFormat[1] = "multi" /\ value.kind = "list"

\* The pieces of the raw value, as the property reads them.
PiecesOf(v, format) ==
    IF format = "multi" THEN v.items
    ELSE LET pieces == Split(v.s, Delimiter(format))
         IN  [k \in 1..Len(pieces) |-> StrV(pieces[k])]

\* The outcome of validating each piece on its own.
EachOf(p, v) ==
    LET pieces == PiecesOf(v, p.collectionFormat[1])
    IN  [k \in 1..Len(pieces) |-> _validate_part(p.name, p.items_[1], pieces[k])]

-----------------------------------------------------------------------------
(* C4 *)

\* C4: when every piece of the raw value is valid, the result is a list with
\* one entry for each piece, entry k being the result of validating piece k,
\* in the order of the pieces; for a delimiter format the pieces are the parts
\* of the raw string between the delimiters.  "a,b,c" as csv of strings is
\* ["a", "b", "c"] and "1,2,3" as csv of integers is [1, 2, 3].
C4_ArrayOrder ==
    ArrayCase =>
        LET format == param.collectionFormat[1]
            pieces == PiecesOf(value, format)
            each   == EachOf(param, value)
        IN  /\ format \in DelimiterFormats =>
                  ArePieces([k \in 1..Len(pieces) |-> pieces[k].s], value.s,
                            Delimiter(format))
            /\ (\A k \in 1..Len(each) : ~Raised(each[k])) =>
                  /\ ~Raised(result)
                  /\ result.val.kind = "list"
                  /\ Len(result.val.items) = Len(pieces)
                  /\ \A k \in 1..Len(pieces) : result.val.items[k] = each[k].val
            /\ (format = "csv" /\ param.items_[1] = StringSchema
                  /\ value = StrV(<<"a", ",", "b", ",", "c">>)) =>
                  /\ ~Raised(result)
                  /\ result.val = ListV(<<StrV(<<"a">>), StrV(<<"b">>), StrV(<<"c">>)>>)

-----------------------------------------------------------------------------
(* C5 *)

\* C5: when a piece of the raw value is invalid, the call returns no list: it
\* raises what validating the first invalid piece raises (the same exception
\* and message, raised for that piece), whatever the later pieces are.
C5_FailFast ==
    ArrayCase =>
        LET each == EachOf(param, value)
            bad  == {k \in 1..Len(each) : Raised(each[k])}
        IN  bad # {} =>
                LET first == CHOOSE k \in bad : \A j \in bad : k <= j
                IN  /\ Raised(result)
                    /\ result.val = NoneV
                    /\ result.exc = each[first].exc
                    /\ result.msg = each[first].msg
                    /\ result.at = each[first].at

-----------------------------------------------------------------------------
(* C6 *)

\* C6: an array definition without a collection format fails with
\* InvalidParameterDefinition for every raw value, a string or a list of
\* strings, with or without a definition of its items; it returns nothing and
\* raises no validation error.
C6_NoCollectionFormat ==
    (Validated /\ param.type = "array" /\ ~Has(param.collectionFormat)) =>
        /\ result.exc \in SchemaErrors
        /\ result.exc \notin ValidationErrors
        /\ result.val = NoneV
        /\ result.msg.text = "collection format not defined"

\* A list of strings, items defined, no collection format.
C6_Witness ==
    /\ Validated
    /\ param.type = "array"
    /\ ~Has(param.collectionFormat)
    /\ param.items_ = <<IntegerSchema>>
    /\ value = ListV(<<StrV(<<"1">>), StrV(<<"x">>)>>)
    /\ result.exc = "InvalidParameterDefinition"

-----------------------------------------------------------------------------
(* C8 *)

\* C8: an array definition whose collection format is set and is none of csv,
\* ssv, tsv, pipes and multi fails with InvalidParameterDefinition, and so does
\* one with a known format and no definition of its items (called with the
\* kind of raw value its format takes); the format is looked at first, so a
\* definition with both defects reports the format; nothing is returned, and
\* the exception is the one of the definition, not one raised for a piece.
C8_BadArrayDefinition ==
    (Validated /\ param.type = "array" /\ Has(param.collectionFormat)
               /\ param.collectionFormat[1] # "") =>
        LET format == param.collectionFormat[1]
        IN  /\ format \notin DelimiterFormats \cup {"multi"} =>
                  /\ result.exc \in SchemaErrors
                  /\ result.msg.text = "collection format not recognised"
                  /\ result.val = NoneV
            /\ (/\ ~Has(param.items_)
                /\ \/ format \in DelimiterFormats /\ value.kind = "str"
                   \/ format = "multi") =>
                  /\ result.exc \in SchemaErrors
                  /\ result.msg.text = "type of items not defined"
                  /\ result.val = NoneV

-----------------------------------------------------------------------------
(* C9 *)

\* C9: a definition whose type is none of string, integer, number, boolean and
\* array fails with InvalidParameterDefinition for every raw value and never
\* returns a value.
C9_UnknownTypeFails ==
    (Validated /\ param.type \notin {"string", "integer", "number", "boolean", "array"}) =>
        result.exc \in SchemaErrors

-----------------------------------------------------------------------------
(* C10 *)

\* C10: the pattern is checked once.  A string with a pattern passes the
\* check exactly when the pattern matches from the start of the value, and no
\* full match is asked of it afterwards; an integer or a number with a pattern
\* passes exactly when the pattern matches the whole raw string.
C10_PatternOnce ==
    (Validated /\ Has(param.pattern) /\ param.pattern[1] # <<>>
               /\ ~Has(param.enum) /\ ~Has(param.format) /\ value.kind = "str") =>
        /\ param.type = "string" =>
              (~Raised(result) <=> ReMatch(param.pattern[1], value.s))
        /\ (param.type = "integer" /\ IntParses(value.s)) =>
              (~Raised(result) <=> ReFullMatch(param.pattern[1], value.s))
        /\ (param.type = "number" /\ FloatParses(value.s)) =>
              (~Raised(result) <=> ReFullMatch(param.pattern[1], value.s))

-----------------------------------------------------------------------------
(* C7 *)

\* The parameter's name is not in the request at the definition's location.
Absent ==
    \/ param.in_ = "query" /\ param.name \notin DOMAIN request.query_params
    \/ param.in_ = "header" /\ param.name \notin DOMAIN request.META

\* The raw value of the parameter in the request, when it is there.
RawOf(p, req) == IF p.in_ = "query" THEN req.query_params[p.name] ELSE req.META[p.name]

\* C7: for a parameter that is not in the request the lookup returns the
\* definition's default as it is, if there is one; else it fails with a
\* validation error if the parameter is required; else it returns None.  For a
\* parameter that is in the request it returns what validating the raw value
\* gives.
C7_Lookup ==
    (LookedUp /\ param.in_ \in {"query", "header"}) =>
        IF Absent
        THEN IF Has(param.default) THEN result = Return(param.default[1])
             ELSE IF param.required THEN result.exc \in ValidationErrors
             ELSE result = Return(NoneV)
        ELSE result = _validate_part(param.name, param, RawOf(param, request))

=============================================================================
